---- MODULE Spec2Model ----
(***************************************************************************)
(* Model of the sequence-containment engine of the slices package:         *)
(* ContainsSequence, its option handling, Contains, bruteForceSearch and   *)
(* apostolicoCrochemoreSearch.                                             *)
(*                                                                         *)
(* Go slices are 0-indexed; they are modelled as TLA+ sequences and read   *)
(* through At(s, n) with the Go index n.  Every call of ContainsSequence   *)
(* owns one frame (a record of its parameters and locals); a frame steps   *)
(* through the statements of the code, one slice read per step, and an     *)
(* index outside a slice's bounds sends the frame to "panic", as the Go    *)
(* runtime would.                                                          *)
(***************************************************************************)
EXTENDS Integers, Sequences, FiniteSets, TLC

\* ------------------------------------------------------------------ bounds

\* Elements are the values 1..MaxElem (the code only compares them with ==).
MaxElem == 2
\* Longest haystack and longest pattern of a call.
MaxH == 6
MaxP == 4
\* Longest option list of a call.
MaxOpts == 1
\* Number of call frames (concurrent calls in SpecPar).
NumCalls == 2
\* Calls made one after the other by the caller of SpecSeq.
MaxCalls == 2
\* Longest haystack and pattern of the concurrent calls of SpecPar.
ParMaxH == 3
ParMaxP == 2
\* Longest haystack, pattern and option list of the calls of SpecOrder.
OrderMaxH == 4
OrderMaxP == 3
OrderMaxOpts == 2
\* Longest sequence sent through a combinator in SpecPipe.
PipeMaxLen == 3

Elems == 1..MaxElem

Procs == 1..NumCalls

RECURSIVE SeqsUpTo(_, _)
SeqsUpTo(S, n) ==
    IF n = 0 THEN {<<>>}
    ELSE LET shorter == SeqsUpTo(S, n - 1)
         IN  shorter \cup {Append(q, e) : q \in {r \in shorter : Len(r) = n - 1}, e \in S}

\* ------------------------------------------------------------------ slices

\* s[n] for a Go index n.
At(s, n) == s[n + 1]

\* n is a valid index of a slice of length len.
InRange(n, len) == 0 <= n /\ n < len

\* make([]int, n): n zeroes.
MakeInts(n) == [m \in 1..n |-> 0]

\* s[n] = v for a Go index n.
SetAt(s, n, v) == [s EXCEPT ![n + 1] = v]

\* --------------------------------------------------------------- selectors

containsSequenceApostolicoCrochemore == "ApostolicoCrochemore"
containsSequenceBruteForce == "BruteForce"
\* The zero value of containsSequenceArgs.searchAlgorithm.
Unset == ""
\* A searchAlgorithm string that is neither constant.
Unlisted == "Unlisted"

\* The options a caller can pass: the two exported ones, and a function of
\* type ContainsSequenceOpt that stores a string outside the constants.
OptApostolicoCrochemore == "ContainsSequenceApostolicoCrochemore"
OptBruteForce == "ContainsSequenceBruteForce"
OptUnlisted == "unlisted"
Opts == {OptApostolicoCrochemore, OptBruteForce, OptUnlisted}

\* opt(&args): the searchAlgorithm after the option ran.
ApplyOpt(opt, searchAlgorithm) ==
    CASE opt = OptApostolicoCrochemore -> containsSequenceApostolicoCrochemore
      [] opt = OptBruteForce -> containsSequenceBruteForce
      [] OTHER -> Unlisted

\* for _, opt := range opts { opt(&args) } from args := containsSequenceArgs{}.
RECURSIVE ApplyOpts(_, _)
ApplyOpts(opts, searchAlgorithm) ==
    IF opts = <<>> THEN searchAlgorithm
    ELSE ApplyOpts(Tail(opts), ApplyOpt(Head(opts), searchAlgorithm))

\* ------------------------------------------------- the functions, as values

\* Contains: the first n with s[n] == ele decides.
RECURSIVE ContainsFrom(_, _, _)
ContainsFrom(s, ele, n) ==
    IF n >= Len(s) THEN FALSE
    ELSE IF At(s, n) = ele THEN TRUE
    ELSE ContainsFrom(s, ele, n + 1)

Contains(s, ele) == ContainsFrom(s, ele, 0)

\* bruteForceSearch: the inner loop of one offset idx, from seqIdx on.
RECURSIVE bruteForceInner(_, _, _, _)
bruteForceInner(s, seq, idx, seqIdx) ==
    IF seqIdx >= Len(seq) THEN TRUE
    ELSE IF At(s, idx + seqIdx) # At(seq, seqIdx) THEN FALSE
    ELSE bruteForceInner(s, seq, idx, seqIdx + 1)

RECURSIVE bruteForceOuter(_, _, _)
bruteForceOuter(s, seq, idx) ==
    IF idx >= Len(s) THEN FALSE
    ELSE IF Len(s) - idx < Len(seq) THEN FALSE
    ELSE IF bruteForceInner(s, seq, idx, 0) THEN TRUE
    ELSE bruteForceOuter(s, seq, idx + 1)

bruteForceSearch(s, seq) == bruteForceOuter(s, seq, 0)

\* The fallback loop of the table builder: the y it ends with.
RECURSIVE kmpFallback(_, _, _, _)
kmpFallback(seq, kmpNext, x, y) ==
    IF y > -1 /\ (x = Len(seq) \/ At(seq, x) # At(seq, y))
    THEN kmpFallback(seq, kmpNext, x, At(kmpNext, y))
    ELSE y

\* kmpEntry that always copies the entry of the fallback position.
kmpEntryAlwaysCopies(seq, kmpNext, x, y) == At(kmpNext, y)

\* kmpEntry of the plain Knuth-Morris-Pratt table: always y.
kmpEntryPlain(seq, kmpNext, x, y) == y

\* The value stored in kmpNext[x] after x++ and y++.
kmpEntry(seq, kmpNext, x, y) ==
    IF x # Len(seq) /\ At(seq, x) = At(seq, y) THEN At(kmpNext, y) ELSE y

RECURSIVE kmpBuild(_, _, _, _)
kmpBuild(seq, kmpNext, x, y) ==
    IF x < Len(seq)
    THEN LET y1 == kmpFallback(seq, kmpNext, x, y) + 1
             x1 == x + 1
         IN  kmpBuild(seq, SetAt(kmpNext, x1, kmpEntry(seq, kmpNext, x1, y1)), x1, y1)
    ELSE kmpNext

\* The shift table of seq.
kmpNextOf(seq) == kmpBuild(seq, SetAt(MakeInts(Len(seq) + 1), 0, -1), 0, -1)

RECURSIVE ellLoop(_, _)
ellLoop(seq, ell) ==
    IF ell < Len(seq) /\ At(seq, ell - 1) = At(seq, ell)
    THEN ellLoop(seq, ell + 1)
    ELSE ell

\* ellReset that never resets.
ellResetNever(seq, ell) == ell

\* if ell == len(seq) { ell = 0 }
ellReset(seq, ell) == IF ell = Len(seq) THEN 0 ELSE ell

ellOf(seq) == ellReset(seq, ellLoop(seq, 1))

\* The suffix phase at alignment j: the i it ends with.
RECURSIVE acSuffix(_, _, _, _)
acSuffix(s, seq, i, j) ==
    IF i < Len(seq) /\ At(seq, i) = At(s, i + j)
    THEN acSuffix(s, seq, i + 1, j)
    ELSE i

\* The prefix phase at alignment j: the k it ends with.
RECURSIVE acPrefix(_, _, _, _, _)
acPrefix(s, seq, ell, j, k) ==
    IF k < ell /\ At(seq, k) = At(s, j + k)
    THEN acPrefix(s, seq, ell, j, k + 1)
    ELSE k

\* acShift reading the head entry -1 of the table as 0.
acShiftClamped(kmpNext, i, j) == j + (i - (IF At(kmpNext, i) < 0 THEN 0 ELSE At(kmpNext, i)))

\* acShift by one alignment whatever the table holds.
acShiftByOne(kmpNext, i, j) == j + 1

\* acShift with the matched length skipped and the table ignored.
acShiftSkipMatched(kmpNext, i, j) == j + i + 1

\* j += (i - kmpNext[i])
acShift(kmpNext, i, j) == j + (i - At(kmpNext, i))

\* acResync whose second branch leaves i where the mismatch was.
acResyncKeepsI(kmpNext, ell, i, k) ==
    IF i = ell
    THEN [i |-> i, k |-> IF k - 1 > 0 THEN k - 1 ELSE 0]
    ELSE IF At(kmpNext, i) <= ell
         THEN [i |-> i, k |-> IF At(kmpNext, i) > 0 THEN At(kmpNext, i) ELSE 0]
         ELSE [i |-> At(kmpNext, i), k |-> ell]

\* acResync whose second branch credits the whole prefix.
acResyncCreditsPrefix(kmpNext, ell, i, k) ==
    IF i = ell
    THEN [i |-> i, k |-> IF k - 1 > 0 THEN k - 1 ELSE 0]
    ELSE IF At(kmpNext, i) <= ell
         THEN [i |-> ell, k |-> ell]
         ELSE [i |-> At(kmpNext, i), k |-> ell]

\* acResync whose first branch keeps k after the shift.
acResyncKeepsK(kmpNext, ell, i, k) ==
    IF i = ell
    THEN [i |-> i, k |-> k]
    ELSE IF At(kmpNext, i) <= ell
         THEN [i |-> ell, k |-> IF At(kmpNext, i) > 0 THEN At(kmpNext, i) ELSE 0]
         ELSE [i |-> At(kmpNext, i), k |-> ell]

\* acResync without the clamps of k at 0.
acResyncNoClamp(kmpNext, ell, i, k) ==
    IF i = ell
    THEN [i |-> i, k |-> k - 1]
    ELSE IF At(kmpNext, i) <= ell
         THEN [i |-> ell, k |-> At(kmpNext, i)]
         ELSE [i |-> At(kmpNext, i), k |-> ell]

\* The i and k of the next alignment.
acResync(kmpNext, ell, i, k) ==
    IF i = ell
    THEN [i |-> i, k |-> IF k - 1 > 0 THEN k - 1 ELSE 0]
    ELSE IF At(kmpNext, i) <= ell
         THEN [i |-> ell, k |-> IF At(kmpNext, i) > 0 THEN At(kmpNext, i) ELSE 0]
         ELSE [i |-> At(kmpNext, i), k |-> ell]

RECURSIVE acScan(_, _, _, _, _, _, _)
acScan(s, seq, kmpNext, ell, i, j, k) ==
    IF j <= Len(s) - Len(seq)
    THEN LET i1 == acSuffix(s, seq, i, j)
             k1 == IF i1 >= Len(seq) THEN acPrefix(s, seq, ell, j, k) ELSE k
         IN  IF i1 >= Len(seq) /\ k1 >= ell THEN TRUE
             ELSE LET r == acResync(kmpNext, ell, i1, k1)
                  IN  acScan(s, seq, kmpNext, ell, r.i, acShift(kmpNext, i1, j), r.k)
    ELSE FALSE

apostolicoCrochemoreSearch(s, seq) ==
    LET ell == ellOf(seq)
    IN  acScan(s, seq, kmpNextOf(seq), ell, ell, 0, 0)

\* The matcher a frame has entered, if any.
NoMatcher == "none"
RanContains == "Contains"
RanBruteForce == "bruteForceSearch"
RanApostolicoCrochemore == "apostolicoCrochemoreSearch"

\* EntryCase without the test for an empty seq.
EntryCaseNoEmpty(s, seq) ==
    IF Len(s) < Len(seq) THEN "short"
    ELSE IF Len(seq) = 1 THEN "single"
    ELSE "search"

\* EntryCase without the branch for a seq of one element.
EntryCaseNoSingle(s, seq) ==
    IF Len(s) < Len(seq) THEN "short"
    ELSE IF Len(seq) = 0 THEN "empty"
    ELSE "search"

\* EntryCase without the test for a seq longer than s.
EntryCaseNoShort(s, seq) ==
    IF Len(seq) = 0 THEN "empty"
    ELSE IF Len(seq) = 1 THEN "single"
    ELSE "search"

\* The branch ContainsSequence takes on entry, its tests in the code's order.
EntryCase(s, seq) ==
    IF Len(s) < Len(seq) THEN "short"
    ELSE IF Len(seq) = 0 THEN "empty"
    ELSE IF Len(seq) = 1 THEN "single"
    ELSE "search"

\* Matcher with the linear search as the default case.
MatcherDefaultLinear(searchAlgorithm) ==
    CASE searchAlgorithm = containsSequenceBruteForce -> RanBruteForce
      [] OTHER -> RanApostolicoCrochemore

\* switch args.searchAlgorithm: the matcher each value selects.
Matcher(searchAlgorithm) ==
    CASE searchAlgorithm = containsSequenceApostolicoCrochemore -> RanApostolicoCrochemore
      [] searchAlgorithm = containsSequenceBruteForce -> RanBruteForce
      [] OTHER -> RanBruteForce

\* ContainsSequence(s, seq, opts...)
ContainsSequence(s, seq, opts) ==
    CASE EntryCase(s, seq) = "short" -> FALSE
      [] EntryCase(s, seq) = "empty" -> TRUE
      [] EntryCase(s, seq) = "single" -> Contains(s, At(seq, 0))
      [] OTHER -> IF Matcher(ApplyOpts(opts, Unset)) = RanApostolicoCrochemore
                  THEN apostolicoCrochemoreSearch(s, seq)
                  ELSE bruteForceSearch(s, seq)

\* ------------------------------------------------------------------- state

\* frame[p]: the parameters and locals of call p, and where it stands (pc).
\* caller[p]: the haystack and pattern as the caller of call p passed them.
\* returned[p]: the calls the caller of frame p has already seen return.
VARIABLES frame, caller, returned, chans

vars == <<frame, caller, returned, chans>>

OptSeqs == SeqsUpTo(Opts, MaxOpts)

\* A frame nobody called.  Three fields are not variables of the code but
\* counts of what a call has done so far: compares, the element comparisons
\* (== and != on elements of seq) made by the preprocessing of
\* apostolicoCrochemoreSearch, scanCompares, the comparisons of an element of
\* seq with one of s made by its scan, and alignments, the times the body of
\* the scan's outer loop was entered.
IdleFrame ==
    [pc |-> "idle", s |-> <<>>, seq |-> <<>>, opts |-> <<>>, optIdx |-> 0,
     searchAlgorithm |-> Unset, ele |-> 0, n |-> 0, idx |-> 0, seqIdx |-> 0,
     kmpNext |-> <<>>, x |-> 0, y |-> 0, ell |-> 0, i |-> 0, j |-> 0, k |-> 0,
     ret |-> FALSE, ran |-> NoMatcher, calls |-> 0, compares |-> 0,
     scanCompares |-> 0, alignments |-> 0]

\* ContainsSequence(s, seq, opts...) is entered on frame f: the parameters
\* are bound, the locals hold whatever the frame held before.
Enter(f, s, seq, opts) ==
    [f EXCEPT !.pc = "entry", !.s = s, !.seq = seq, !.opts = opts,
              !.ran = NoMatcher, !.calls = f.calls + 1, !.compares = 0,
              !.scanCompares = 0, !.alignments = 0]

Set(p, f) ==
    /\ frame' = [frame EXCEPT ![p] = f]
    /\ UNCHANGED <<caller, returned, chans>>

\* return b
Return(f, b) == [f EXCEPT !.pc = "done", !.ret = b]

\* An index out of range ends the call with a run-time panic.
Panic(f) == [f EXCEPT !.pc = "panic"]

\* ------------------------------------------------------- ContainsSequence

\* if len(s) < len(seq) { return false }
TooShort(p) ==
    LET f == frame[p] IN
    /\ f.pc = "entry"
    /\ EntryCase(f.s, f.seq) = "short"
    /\ Set(p, Return(f, FALSE))

\* if len(seq) == 0 { return true }
EmptySeq(p) ==
    LET f == frame[p] IN
    /\ f.pc = "entry"
    /\ EntryCase(f.s, f.seq) = "empty"
    /\ Set(p, Return(f, TRUE))

\* if len(seq) == 1 { return Contains(s, seq[0]) }: Contains is entered.
SingleSeq(p) ==
    LET f == frame[p] IN
    /\ f.pc = "entry"
    /\ EntryCase(f.s, f.seq) = "single"
    /\ Set(p, IF InRange(0, Len(f.seq))
              THEN [f EXCEPT !.pc = "Contains", !.ele = At(f.seq, 0), !.n = 0,
                             !.ran = RanContains]
              ELSE Panic(f))

\* ContainsLoop stopping one element early.
ContainsLoopStopsEarly(p) ==
    LET f == frame[p] IN
    /\ f.pc = "Contains"
    /\ Set(p, IF f.n >= Len(f.s) - 1 THEN Return(f, FALSE)
              ELSE IF At(f.s, f.n) = f.ele THEN Return(f, TRUE)
              ELSE [f EXCEPT !.n = f.n + 1])

\* Contains: for _, e := range s { if e == ele { return true } }; return false
ContainsLoop(p) ==
    LET f == frame[p] IN
    /\ f.pc = "Contains"
    /\ Set(p, IF f.n >= Len(f.s) THEN Return(f, FALSE)
              ELSE IF At(f.s, f.n) = f.ele THEN Return(f, TRUE)
              ELSE [f EXCEPT !.n = f.n + 1])

\* args := containsSequenceArgs{}
NewArgs(p) ==
    LET f == frame[p] IN
    /\ f.pc = "entry"
    /\ EntryCase(f.s, f.seq) = "search"
    /\ Set(p, [f EXCEPT !.pc = "opts", !.searchAlgorithm = Unset, !.optIdx = 0])

\* OptsLoop where an option only sets a searchAlgorithm that is still unset.
OptsLoopFirstWins(p) ==
    LET f == frame[p] IN
    /\ f.pc = "opts"
    /\ f.optIdx < Len(f.opts)
    /\ Set(p, [f EXCEPT !.searchAlgorithm =
                            IF f.searchAlgorithm = Unset
                            THEN ApplyOpt(At(f.opts, f.optIdx), f.searchAlgorithm)
                            ELSE f.searchAlgorithm,
                        !.optIdx = f.optIdx + 1])

\* for _, opt := range opts { opt(&args) }: one option.
OptsLoop(p) ==
    LET f == frame[p] IN
    /\ f.pc = "opts"
    /\ f.optIdx < Len(f.opts)
    /\ Set(p, [f EXCEPT !.searchAlgorithm = ApplyOpt(At(f.opts, f.optIdx), f.searchAlgorithm),
                        !.optIdx = f.optIdx + 1])

\* case containsSequenceApostolicoCrochemore: return apostolicoCrochemoreSearch(s, seq)
SwitchApostolicoCrochemore(p) ==
    LET f == frame[p] IN
    /\ f.pc = "opts"
    /\ f.optIdx >= Len(f.opts)
    /\ Matcher(f.searchAlgorithm) = RanApostolicoCrochemore
    /\ Set(p, [f EXCEPT !.pc = "ac_alloc", !.ran = RanApostolicoCrochemore])

\* case containsSequenceBruteForce: fallthrough; default: return bruteForceSearch(s, seq)
SwitchDefault(p) ==
    LET f == frame[p] IN
    /\ f.pc = "opts"
    /\ f.optIdx >= Len(f.opts)
    /\ Matcher(f.searchAlgorithm) = RanBruteForce
    /\ Set(p, [f EXCEPT !.pc = "bf_outer", !.idx = 0, !.ran = RanBruteForce])

\* -------------------------------------------------------- bruteForceSearch

\* BruteForceOuter breaking one offset early (<= for <).
BruteForceOuterBreaksEarly(p) ==
    LET f == frame[p] IN
    /\ f.pc = "bf_outer"
    /\ Set(p, IF f.idx >= Len(f.s) THEN Return(f, FALSE)
              ELSE IF Len(f.s) - f.idx <= Len(f.seq) THEN Return(f, FALSE)
              ELSE [f EXCEPT !.pc = "bf_inner", !.seqIdx = 0])

\* for idx := range s { if len(s)-idx < len(seq) { break } ... }; return false
BruteForceOuter(p) ==
    LET f == frame[p] IN
    /\ f.pc = "bf_outer"
    /\ Set(p, IF f.idx >= Len(f.s) THEN Return(f, FALSE)
              ELSE IF Len(f.s) - f.idx < Len(f.seq) THEN Return(f, FALSE)
              ELSE [f EXCEPT !.pc = "bf_inner", !.seqIdx = 0])

\* for seqIdx := range seq { if s[idx+seqIdx] != seq[seqIdx] { continue Outer } }
\* return true
BruteForceInner(p) ==
    LET f == frame[p] IN
    /\ f.pc = "bf_inner"
    /\ Set(p, IF f.seqIdx >= Len(f.seq) THEN Return(f, TRUE)
              ELSE IF ~InRange(f.idx + f.seqIdx, Len(f.s)) THEN Panic(f)
              ELSE IF At(f.s, f.idx + f.seqIdx) # At(f.seq, f.seqIdx)
                   THEN [f EXCEPT !.pc = "bf_outer", !.idx = f.idx + 1]
                   ELSE [f EXCEPT !.seqIdx = f.seqIdx + 1])

\* ---------------------------------------------- apostolicoCrochemoreSearch

\* TableAlloc with a table of len(seq) entries.
TableAllocShort(p) ==
    LET f == frame[p]
        t == MakeInts(Len(f.seq))
    IN
    /\ f.pc = "ac_alloc"
    /\ Set(p, IF ~InRange(0, Len(t)) THEN Panic(f)
              ELSE [f EXCEPT !.pc = "ac_build", !.kmpNext = SetAt(t, 0, -1),
                             !.x = 0, !.y = -1])

\* TableAlloc that also terminates seq with a zero, as the C original's
\* strings are.
TableAllocSentinel(p) ==
    LET f == frame[p]
        t == MakeInts(Len(f.seq) + 1)
    IN
    /\ f.pc = "ac_alloc"
    /\ Set(p, IF ~InRange(0, Len(t)) THEN Panic(f)
              ELSE [f EXCEPT !.pc = "ac_build", !.kmpNext = SetAt(t, 0, -1),
                             !.x = 0, !.y = -1, !.seq = Append(f.seq, 0)])

\* TableAlloc without kmpNext[0] = -1: the head stays 0.
TableAllocZeroHead(p) ==
    LET f == frame[p]
        t == MakeInts(Len(f.seq) + 1)
    IN
    /\ f.pc = "ac_alloc"
    /\ Set(p, [f EXCEPT !.pc = "ac_build", !.kmpNext = t, !.x = 0, !.y = -1])

\* kmpNext := make([]int, len(seq)+1); x := 0; y := -1; kmpNext[0] = -1
TableAlloc(p) ==
    LET f == frame[p]
        t == MakeInts(Len(f.seq) + 1)
    IN
    /\ f.pc = "ac_alloc"
    /\ Set(p, IF ~InRange(0, Len(t)) THEN Panic(f)
              ELSE [f EXCEPT !.pc = "ac_build", !.kmpNext = SetAt(t, 0, -1),
                             !.x = 0, !.y = -1])

\* for x < len(seq) { ... }, and ell := 1 once the table is built.
TableLoop(p) ==
    LET f == frame[p] IN
    /\ f.pc = "ac_build"
    /\ Set(p, IF f.x < Len(f.seq) THEN [f EXCEPT !.pc = "ac_fallback"]
              ELSE [f EXCEPT !.pc = "ac_ell", !.ell = 1])

\* The element comparisons one evaluation of the fallback loop's condition
\* makes: seq[x] != seq[y] is reached when y > -1 and x != len(seq).
FallbackCompares(f) == IF f.y > -1 /\ f.x # Len(f.seq) THEN 1 ELSE 0

\* The reads of the fallback loop's condition are in range.
FallbackReadsOk(f) ==
    (f.y > -1 /\ f.x # Len(f.seq)) =>
        (InRange(f.x, Len(f.seq)) /\ InRange(f.y, Len(f.seq)))

\* TableFallback that restarts from the head instead of following the table.
TableFallbackRestarts(p) ==
    LET f == frame[p] IN
    /\ f.pc = "ac_fallback"
    /\ Set(p, IF ~FallbackReadsOk(f) THEN Panic(f)
              ELSE IF f.y > -1 /\ (f.x = Len(f.seq) \/ At(f.seq, f.x) # At(f.seq, f.y))
                   THEN [f EXCEPT !.y = -1, !.compares = f.compares + FallbackCompares(f)]
                   ELSE [f EXCEPT !.pc = "ac_store",
                                  !.compares = f.compares + FallbackCompares(f)])

\* for y > -1 && (x == len(seq) || seq[x] != seq[y]) { y = kmpNext[y] }
TableFallback(p) ==
    LET f == frame[p] IN
    /\ f.pc = "ac_fallback"
    /\ Set(p, IF ~FallbackReadsOk(f) THEN Panic(f)
              ELSE IF f.y > -1 /\ (f.x = Len(f.seq) \/ At(f.seq, f.x) # At(f.seq, f.y))
                   THEN IF ~InRange(f.y, Len(f.kmpNext)) THEN Panic(f)
                        ELSE [f EXCEPT !.y = At(f.kmpNext, f.y),
                                       !.compares = f.compares + FallbackCompares(f)]
                   ELSE [f EXCEPT !.pc = "ac_store",
                                  !.compares = f.compares + FallbackCompares(f)])

\* The element comparisons of the store: seq[x] == seq[y] when x != len(seq).
StoreCompares(f, x) == IF x # Len(f.seq) THEN 1 ELSE 0

\* The reads and the write of the table entry x (after x++, y++) are in range.
StoreAccessOk(f, x, y) ==
    /\ InRange(x, Len(f.kmpNext))
    /\ (x # Len(f.seq)) => (InRange(x, Len(f.seq)) /\ InRange(y, Len(f.seq)))
    /\ (x # Len(f.seq) /\ InRange(x, Len(f.seq)) /\ InRange(y, Len(f.seq))
          /\ At(f.seq, x) = At(f.seq, y)) => InRange(y, Len(f.kmpNext))

\* TableStore on one table that every call uses.
TableStoreShared(p) ==
    LET f == frame[p]
        x == f.x + 1
        y == f.y + 1
        t == SetAt(f.kmpNext, x, kmpEntry(f.seq, f.kmpNext, x, y))
    IN
    /\ f.pc = "ac_store"
    /\ frame' = [q \in Procs |->
                   IF q = p
                   THEN IF ~StoreAccessOk(f, x, y) THEN Panic(f)
                        ELSE [f EXCEPT !.pc = "ac_build", !.x = x, !.y = y, !.kmpNext = t,
                                       !.compares = f.compares + StoreCompares(f, x)]
                   ELSE IF StoreAccessOk(f, x, y) THEN [frame[q] EXCEPT !.kmpNext = t]
                        ELSE frame[q]]
    /\ UNCHANGED <<caller, returned, chans>>

\* x++; y++; if x != len(seq) && seq[x] == seq[y] { kmpNext[x] = kmpNext[y] }
\* else { kmpNext[x] = y }
TableStore(p) ==
    LET f == frame[p]
        x == f.x + 1
        y == f.y + 1
    IN
    /\ f.pc = "ac_store"
    /\ Set(p, IF ~StoreAccessOk(f, x, y) THEN Panic(f)
              ELSE [f EXCEPT !.pc = "ac_build", !.x = x, !.y = y,
                             !.kmpNext = SetAt(f.kmpNext, x, kmpEntry(f.seq, f.kmpNext, x, y)),
                             !.compares = f.compares + StoreCompares(f, x)])

\* EllLoop that stops one element short of the end of the pattern.
EllLoopStopsEarly(p) ==
    LET f == frame[p] IN
    /\ f.pc = "ac_ell"
    /\ Set(p, IF f.ell < Len(f.seq) - 1 /\ ~InRange(f.ell - 1, Len(f.seq)) THEN Panic(f)
              ELSE IF f.ell < Len(f.seq) - 1 /\ At(f.seq, f.ell - 1) = At(f.seq, f.ell)
                   THEN [f EXCEPT !.ell = f.ell + 1, !.compares = f.compares + 1]
                   ELSE [f EXCEPT !.pc = "ac_ellreset",
                                  !.compares = f.compares + IF f.ell < Len(f.seq) - 1 THEN 1 ELSE 0])

\* for ell < len(seq) && seq[ell-1] == seq[ell] { ell++ }
EllLoop(p) ==
    LET f == frame[p] IN
    /\ f.pc = "ac_ell"
    /\ Set(p, IF f.ell < Len(f.seq) /\ ~InRange(f.ell - 1, Len(f.seq)) THEN Panic(f)
              ELSE IF f.ell < Len(f.seq) /\ At(f.seq, f.ell - 1) = At(f.seq, f.ell)
                   THEN [f EXCEPT !.ell = f.ell + 1, !.compares = f.compares + 1]
                   ELSE [f EXCEPT !.pc = "ac_ellreset",
                                  !.compares = f.compares + IF f.ell < Len(f.seq) THEN 1 ELSE 0])

\* if ell == len(seq) { ell = 0 }
EllReset(p) ==
    LET f == frame[p] IN
    /\ f.pc = "ac_ellreset"
    /\ Set(p, [f EXCEPT !.pc = "ac_init", !.ell = ellReset(f.seq, f.ell)])

\* ScanInit with k kept from whatever the frame held.
ScanInitKeepsK(p) ==
    LET f == frame[p] IN
    /\ f.pc = "ac_init"
    /\ Set(p, [f EXCEPT !.pc = "ac_outer", !.i = f.ell, !.j = 0])

\* i := ell; j := 0; k := 0
ScanInit(p) ==
    LET f == frame[p] IN
    /\ f.pc = "ac_init"
    /\ Set(p, [f EXCEPT !.pc = "ac_outer", !.i = f.ell, !.j = 0, !.k = 0])

\* for j <= len(s)-len(seq) { ... }; return false
ScanLoop(p) ==
    LET f == frame[p] IN
    /\ f.pc = "ac_outer"
    /\ Set(p, IF f.j <= Len(f.s) - Len(f.seq)
              THEN [f EXCEPT !.pc = "ac_suffix", !.alignments = f.alignments + 1]
              ELSE Return(f, FALSE))

\* ScanSuffix that goes on to the prefix phase whatever i it ended with.
ScanSuffixAlwaysPrefix(p) ==
    LET f == frame[p] IN
    /\ f.pc = "ac_suffix"
    /\ Set(p, IF f.i < Len(f.seq) /\ ~(InRange(f.i, Len(f.seq)) /\ InRange(f.i + f.j, Len(f.s)))
              THEN Panic(f)
              ELSE IF f.i < Len(f.seq) /\ At(f.seq, f.i) = At(f.s, f.i + f.j)
                   THEN [f EXCEPT !.i = f.i + 1, !.scanCompares = f.scanCompares + 1]
                   ELSE IF f.i >= Len(f.seq) THEN [f EXCEPT !.pc = "ac_prefix"]
                        ELSE [f EXCEPT !.pc = "ac_prefix", !.scanCompares = f.scanCompares + 1])

\* for i < len(seq) && seq[i] == s[i+j] { i++ }; if i >= len(seq) { ... }
ScanSuffix(p) ==
    LET f == frame[p] IN
    /\ f.pc = "ac_suffix"
    /\ Set(p, IF f.i < Len(f.seq) /\ ~(InRange(f.i, Len(f.seq)) /\ InRange(f.i + f.j, Len(f.s)))
              THEN Panic(f)
              ELSE IF f.i < Len(f.seq) /\ At(f.seq, f.i) = At(f.s, f.i + f.j)
                   THEN [f EXCEPT !.i = f.i + 1, !.scanCompares = f.scanCompares + 1]
                   ELSE IF f.i >= Len(f.seq) THEN [f EXCEPT !.pc = "ac_prefix"]
                        ELSE [f EXCEPT !.pc = "ac_shift", !.scanCompares = f.scanCompares + 1])

\* for k < ell && seq[k] == s[j+k] { k++ }; if k >= ell { return true }
ScanPrefix(p) ==
    LET f == frame[p] IN
    /\ f.pc = "ac_prefix"
    /\ Set(p, IF f.k < f.ell /\ ~(InRange(f.k, Len(f.seq)) /\ InRange(f.j + f.k, Len(f.s)))
              THEN Panic(f)
              ELSE IF f.k < f.ell /\ At(f.seq, f.k) = At(f.s, f.j + f.k)
                   THEN [f EXCEPT !.k = f.k + 1, !.scanCompares = f.scanCompares + 1]
                   ELSE IF f.k >= f.ell THEN Return(f, TRUE)
                        ELSE [f EXCEPT !.pc = "ac_shift", !.scanCompares = f.scanCompares + 1])

\* ScanShift that tries the next alignment from scratch.
ScanShiftNaive(p) ==
    LET f == frame[p] IN
    /\ f.pc = "ac_shift"
    /\ Set(p, IF ~InRange(f.i, Len(f.kmpNext)) THEN Panic(f)
              ELSE [f EXCEPT !.pc = "ac_outer", !.j = f.j + 1, !.i = f.ell, !.k = 0])

\* ScanShift that also stores the new i in the table entry it has read.
ScanShiftStoresI(p) ==
    LET f == frame[p] IN
    /\ f.pc = "ac_shift"
    /\ Set(p, IF ~InRange(f.i, Len(f.kmpNext)) THEN Panic(f)
              ELSE LET r == acResync(f.kmpNext, f.ell, f.i, f.k)
                   IN  [f EXCEPT !.pc = "ac_outer", !.j = acShift(f.kmpNext, f.i, f.j),
                                 !.i = r.i, !.k = r.k,
                                 !.kmpNext = SetAt(f.kmpNext, f.i, r.i)])

\* j += (i - kmpNext[i]), then the new i and k.
ScanShift(p) ==
    LET f == frame[p] IN
    /\ f.pc = "ac_shift"
    /\ Set(p, IF ~InRange(f.i, Len(f.kmpNext)) THEN Panic(f)
              ELSE LET r == acResync(f.kmpNext, f.ell, f.i, f.k)
                   IN  [f EXCEPT !.pc = "ac_outer", !.j = acShift(f.kmpNext, f.i, f.j),
                                 !.i = r.i, !.k = r.k])

\* ------------------------------------------------------ the chans package

\* The channels and goroutines of one use of the chans package: the goroutine
\* of New(eles...) sends eles on its result channel (the input, closed in the
\* end), a combinator (kind, with its function fn) may read the input and
\* write its own result channel, and a consumer reads the last channel:
\* chans.ContainsSequence(ch, subseq), or a range loop that stores what it
\* receives in got.  All channels are unbuffered: a send and its receive are
\* one step.
IdleChans ==
    [eles |-> <<>>, next |-> 0, inClosed |-> FALSE,
     kind |-> "none", fn |-> <<>>, combPc |-> "idle", ele |-> 0, seen |-> {},
     resultClosed |-> FALSE,
     subseq |-> <<>>, window |-> <<>>, consPc |-> "idle", ret |-> FALSE, got |-> <<>>]

SetChans(c) ==
    /\ chans' = c
    /\ UNCHANGED <<frame, caller, returned>>

\* New: the goroutine is at `result <- ele` with an element left to send.
NewSending == chans.next < Len(chans.eles)

\* New: defer close(result), once every element is sent.
NewClose ==
    /\ chans.next = Len(chans.eles)
    /\ ~chans.inClosed
    /\ SetChans([chans EXCEPT !.inClosed = TRUE])

\* Slide that drops the oldest element as soon as the window is full.
SlideTrimsEarly(window, ele, subseq) ==
    LET w == Append(window, ele)
    IN  IF Len(w) >= Len(subseq) THEN Tail(w) ELSE w

\* window = append(window, ele); if len(window) > len(subseq) { window = window[1:] }
Slide(window, ele, subseq) ==
    LET w == Append(window, ele)
    IN  IF Len(w) > Len(subseq) THEN Tail(w) ELSE w

\* for idx, ele := range subseq { if window[idx] != ele { continue Outer } }:
\* TRUE when the loop ends without continue.
WindowEquals(window, subseq) ==
    \A idx \in 0..(Len(subseq) - 1) : At(window, idx) = At(subseq, idx)

\* if len(subseq) <= 0 { return true }; window := []Elem{}
chansContainsSequenceEntry ==
    /\ chans.consPc = "entry"
    /\ SetChans(IF Len(chans.subseq) <= 0
                THEN [chans EXCEPT !.consPc = "done", !.ret = TRUE]
                ELSE [chans EXCEPT !.consPc = "range", !.window = <<>>])

\* for ele := range ch { ... }: one element is received and handled.
chansContainsSequenceReceive ==
    /\ chans.consPc = "range"
    /\ chans.kind = "none"
    /\ NewSending
    /\ LET w == Slide(chans.window, At(chans.eles, chans.next), chans.subseq)
       IN  SetChans(IF Len(w) < Len(chans.subseq)
                    THEN [chans EXCEPT !.next = chans.next + 1, !.window = w]
                    ELSE IF WindowEquals(w, chans.subseq)
                         THEN [chans EXCEPT !.next = chans.next + 1, !.window = w,
                                            !.consPc = "done", !.ret = TRUE]
                         ELSE [chans EXCEPT !.next = chans.next + 1, !.window = w])

\* The range loop ends on the closed channel: return false
chansContainsSequenceClosed ==
    /\ chans.consPc = "range"
    /\ chans.kind = "none"
    /\ chans.inClosed
    /\ SetChans([chans EXCEPT !.consPc = "done", !.ret = FALSE])

\* chans.ContainsSequence(New(eles...), subseq) for any eles and subseq.
InitStream ==
    \E eles \in SeqsUpTo(Elems, MaxH), subseq \in SeqsUpTo(Elems, MaxP) :
        /\ frame = [p \in Procs |-> IdleFrame]
        /\ caller = [p \in Procs |-> [s |-> <<>>, seq |-> <<>>]]
        /\ returned = [p \in Procs |-> {}]
        /\ chans = [IdleChans EXCEPT !.eles = eles, !.subseq = subseq, !.consPc = "entry"]

NextStream ==
    \/ NewClose
    \/ chansContainsSequenceEntry
    \/ chansContainsSequenceReceive
    \/ chansContainsSequenceClosed

SpecStream == InitStream /\ [][NextStream]_vars

\* ------------------------------------------- combinators that return a channel

\* Map: for ele := range ch { result <- fn(ele) }: an element is received.
MapReceive ==
    /\ chans.kind = "Map" /\ chans.combPc = "range"
    /\ NewSending
    /\ SetChans([chans EXCEPT !.next = chans.next + 1, !.combPc = "send",
                              !.ele = chans.fn[At(chans.eles, chans.next)]])

\* Map: result <- fn(ele), received by the consumer's range loop.
MapSend ==
    /\ chans.kind = "Map" /\ chans.combPc = "send"
    /\ chans.consPc = "range"
    /\ SetChans([chans EXCEPT !.combPc = "range", !.got = Append(chans.got, chans.ele)])

\* Map: the range loop ends on the closed input; defer close(result)
MapClosed ==
    /\ chans.kind = "Map" /\ chans.combPc = "range"
    /\ chans.inClosed
    /\ SetChans([chans EXCEPT !.combPc = "returned", !.resultClosed = TRUE])

\* Filter: for ele := range ch { if fn(ele) { ... } }: an element is received.
FilterReceive ==
    /\ chans.kind = "Filter" /\ chans.combPc = "range"
    /\ NewSending
    /\ SetChans([chans EXCEPT !.next = chans.next + 1, !.ele = At(chans.eles, chans.next),
                              !.combPc = IF chans.fn[At(chans.eles, chans.next)]
                                         THEN "send" ELSE "range"])

\* Filter: result <- ele, received by the consumer's range loop.
FilterSend ==
    /\ chans.kind = "Filter" /\ chans.combPc = "send"
    /\ chans.consPc = "range"
    /\ SetChans([chans EXCEPT !.combPc = "range", !.got = Append(chans.got, chans.ele)])

\* Filter: the range loop ends on the closed input; defer close(result)
FilterClosed ==
    /\ chans.kind = "Filter" /\ chans.combPc = "range"
    /\ chans.inClosed
    /\ SetChans([chans EXCEPT !.combPc = "returned", !.resultClosed = TRUE])

\* DistinctBy: for ele := range ch { comp := fn(ele); if _, ok := seen[comp]; !ok { ... } }
DistinctByReceive ==
    /\ chans.kind = "DistinctBy" /\ chans.combPc = "range"
    /\ NewSending
    /\ SetChans([chans EXCEPT !.next = chans.next + 1, !.ele = At(chans.eles, chans.next),
                              !.combPc = IF chans.fn[At(chans.eles, chans.next)] \in chans.seen
                                         THEN "range" ELSE "send"])

\* DistinctBy: result <- ele, received by the consumer's range loop;
\* seen[comp] = struct{}{}
DistinctBySend ==
    /\ chans.kind = "DistinctBy" /\ chans.combPc = "send"
    /\ chans.consPc = "range"
    /\ SetChans([chans EXCEPT !.combPc = "range", !.got = Append(chans.got, chans.ele),
                              !.seen = chans.seen \cup {chans.fn[chans.ele]}])

\* DistinctBy: the range loop ends on the closed input and the goroutine
\* returns; the function defers no close.
DistinctByClosed ==
    /\ chans.kind = "DistinctBy" /\ chans.combPc = "range"
    /\ chans.inClosed
    /\ SetChans([chans EXCEPT !.combPc = "returned"])

\* The consumer's `for ele := range result` ends on the closed result.
RangeClosed ==
    /\ chans.consPc = "range"
    /\ chans.kind # "none"
    /\ chans.resultClosed
    /\ SetChans([chans EXCEPT !.consPc = "done"])

\* The functions a caller passes: any fn of the combinator's type.  Distinct
\* is DistinctBy with the identity.
FnsOf(kind) == IF kind = "Filter" THEN [Elems -> BOOLEAN] ELSE [Elems -> Elems]

\* for ele := range Map(New(eles...), fn), and the same for Filter, DistinctBy
\* and Distinct.
InitPipe ==
    \E eles \in SeqsUpTo(Elems, PipeMaxLen), kind \in {"Map", "Filter", "DistinctBy"} :
    \E fn \in FnsOf(kind) :
        /\ frame = [p \in Procs |-> IdleFrame]
        /\ caller = [p \in Procs |-> [s |-> <<>>, seq |-> <<>>]]
        /\ returned = [p \in Procs |-> {}]
        /\ chans = [IdleChans EXCEPT !.eles = eles, !.kind = kind, !.fn = fn,
                                     !.combPc = "range", !.consPc = "range"]

NextPipe ==
    \/ NewClose
    \/ MapReceive \/ MapSend \/ MapClosed
    \/ FilterReceive \/ FilterSend \/ FilterClosed
    \/ DistinctByReceive \/ DistinctBySend \/ DistinctByClosed
    \/ RangeClosed

\* Every goroutine that can take a step takes one: the Go scheduler runs a
\* runnable goroutine.
SpecPipe == InitPipe /\ [][NextPipe]_vars /\ WF_vars(NextPipe)

\* ------------------------------------------------------------ the callers

\* The caller of frame p calls again once the call has returned: the same
\* haystack and pattern, any options.
CallAgain(p) ==
    LET f == frame[p] IN
    /\ f.pc = "done"
    /\ f.calls < MaxCalls
    /\ \E opts \in OptSeqs : frame' = [frame EXCEPT ![p] = Enter(f, caller[p].s, caller[p].seq, opts)]
    /\ returned' = [returned EXCEPT ![p] = @ \cup {[s |-> f.s, seq |-> f.seq, opts |-> f.opts, ret |-> f.ret]}]
    /\ UNCHANGED <<caller, chans>>

\* One statement of call p.
Step(p) ==
    \/ TooShort(p)
    \/ EmptySeq(p)
    \/ SingleSeq(p)
    \/ ContainsLoop(p)
    \/ NewArgs(p)
    \/ OptsLoop(p)
    \/ SwitchApostolicoCrochemore(p)
    \/ SwitchDefault(p)
    \/ BruteForceOuter(p)
    \/ BruteForceInner(p)
    \/ TableAlloc(p)
    \/ TableLoop(p)
    \/ TableFallback(p)
    \/ TableStore(p)
    \/ EllLoop(p)
    \/ EllReset(p)
    \/ ScanInit(p)
    \/ ScanLoop(p)
    \/ ScanSuffix(p)
    \/ ScanPrefix(p)
    \/ ScanShift(p)

\* One call: frame 1 is entered with any haystack, pattern and options.
Init ==
    \E s \in SeqsUpTo(Elems, MaxH), seq \in SeqsUpTo(Elems, MaxP), opts \in OptSeqs :
        /\ frame = [p \in Procs |-> IF p = 1 THEN Enter(IdleFrame, s, seq, opts) ELSE IdleFrame]
        /\ caller = [p \in Procs |-> IF p = 1 THEN [s |-> s, seq |-> seq] ELSE [s |-> <<>>, seq |-> <<>>]]
        /\ returned = [p \in Procs |-> {}]
        /\ chans = IdleChans

Next == \E p \in Procs : Step(p)

Spec == Init /\ [][Next]_vars

\* One caller, calling up to MaxCalls times one after the other.
NextSeq == \E p \in Procs : Step(p) \/ CallAgain(p)

SpecSeq == Init /\ [][NextSeq]_vars

\* NumCalls callers at once on one haystack, each with its pattern and options.
InitPar ==
    \E s \in SeqsUpTo(Elems, ParMaxH) :
    \E seqs \in [Procs -> SeqsUpTo(Elems, ParMaxP)], optss \in [Procs -> OptSeqs] :
        /\ frame = [p \in Procs |-> Enter(IdleFrame, s, seqs[p], optss[p])]
        /\ caller = [p \in Procs |-> [s |-> s, seq |-> seqs[p]]]
        /\ returned = [p \in Procs |-> {}]
        /\ chans = IdleChans

SpecPar == InitPar /\ [][Next]_vars

\* ---------------------------------------------- calls with several options

\* opts back to front.
Reversed(opts) == [n \in 1..Len(opts) |-> opts[Len(opts) + 1 - n]]

\* The caller of frame p calls again once the call has returned: the same
\* haystack and pattern, the same options in the opposite order.
CallReversed(p) ==
    LET f == frame[p] IN
    /\ f.pc = "done"
    /\ f.calls < MaxCalls
    /\ frame' = [frame EXCEPT ![p] = Enter(f, caller[p].s, caller[p].seq, Reversed(f.opts))]
    /\ returned' = [returned EXCEPT ![p] = @ \cup {[s |-> f.s, seq |-> f.seq, opts |-> f.opts, ret |-> f.ret]}]
    /\ UNCHANGED <<caller, chans>>

\* One call with any list of up to OrderMaxOpts options.
InitOrder ==
    \E s \in SeqsUpTo(Elems, OrderMaxH), seq \in SeqsUpTo(Elems, OrderMaxP),
       opts \in SeqsUpTo(Opts, OrderMaxOpts) :
        /\ frame = [p \in Procs |-> IF p = 1 THEN Enter(IdleFrame, s, seq, opts) ELSE IdleFrame]
        /\ caller = [p \in Procs |-> IF p = 1 THEN [s |-> s, seq |-> seq] ELSE [s |-> <<>>, seq |-> <<>>]]
        /\ returned = [p \in Procs |-> {}]
        /\ chans = IdleChans

NextOrder == \E p \in Procs : Step(p) \/ CallReversed(p)

SpecOrder == InitOrder /\ [][NextOrder]_vars

\* ------------------------------------------- bruteForceSearch called alone

\* bruteForceSearch(s, seq) is entered on frame f.
EnterBruteForce(f, s, seq) ==
    [f EXCEPT !.pc = "bf_outer", !.s = s, !.seq = seq, !.idx = 0,
              !.ran = RanBruteForce, !.calls = f.calls + 1]

\* bruteForceSearch on any haystack and any pattern, the empty ones and the
\* patterns longer than the haystack included.
InitBruteForce ==
    \E s \in SeqsUpTo(Elems, MaxH), seq \in SeqsUpTo(Elems, MaxP) :
        /\ frame = [p \in Procs |-> IF p = 1 THEN EnterBruteForce(IdleFrame, s, seq) ELSE IdleFrame]
        /\ caller = [p \in Procs |-> IF p = 1 THEN [s |-> s, seq |-> seq] ELSE [s |-> <<>>, seq |-> <<>>]]
        /\ returned = [p \in Procs |-> {}]
        /\ chans = IdleChans

NextBruteForce == \E p \in Procs : BruteForceOuter(p) \/ BruteForceInner(p)

SpecBruteForce == InitBruteForce /\ [][NextBruteForce]_vars

\* ------------------------------------------------------------- properties

\* seq occurs in s as a contiguous run: some offset o has s[o+t] = seq[t]
\* for every t.
OccursAt(s, seq, o) == \A t \in 0..(Len(seq) - 1) : At(s, o + t) = At(seq, t)

Occurs(s, seq) == \E o \in 0..(Len(s) - Len(seq)) : OccursAt(s, seq, o)

\* The option lists of the three ways of calling: no option, the
\* Apostolico-Crochemore option, the brute-force option.
NamedOpts == {<<>>, <<OptApostolicoCrochemore>>, <<OptBruteForce>>}

Done(p) == frame[p].pc = "done"

\* C1: on one haystack and pattern, a call with no option, one with
\* ContainsSequenceApostolicoCrochemore and one with ContainsSequenceBruteForce
\* return the same boolean (SpecSeq: the caller calls again with another
\* option list).
C1_SelectorsAgree ==
    \A p \in Procs : Done(p) =>
        \A r \in returned[p] :
            (/\ r.s = frame[p].s /\ r.seq = frame[p].seq
             /\ r.opts \in NamedOpts /\ frame[p].opts \in NamedOpts
             /\ r.opts # frame[p].opts)
            => r.ret = frame[p].ret

\* Both searches have run on a pattern that occurs only past offset 0, and
\* both found it.
C1_Witness ==
    \E p \in Procs :
        /\ Done(p) /\ frame[p].opts = <<OptApostolicoCrochemore>> /\ frame[p].ret
        /\ frame[p].ran = RanApostolicoCrochemore /\ frame[p].j > 0
        /\ \E r \in returned[p] : r.opts = <<>> /\ r.ret /\ r.seq = frame[p].seq

\* C2: whatever the options, the value returned is TRUE exactly when seq
\* occurs in s as a contiguous run.
C2_ReturnsOccurs ==
    \A p \in Procs : Done(p) => (frame[p].ret <=> Occurs(frame[p].s, frame[p].seq))

\* The Apostolico-Crochemore search returned FALSE past a partial match:
\* the first two elements of a longer pattern occur at offset 0 of the
\* haystack, and the scan moved on beyond offset 1 before giving up.
C2_Witness ==
    \E p \in Procs :
        /\ Done(p) /\ ~frame[p].ret /\ frame[p].ran = RanApostolicoCrochemore
        /\ Len(frame[p].seq) >= 3 /\ frame[p].j > 1
        /\ OccursAt(frame[p].s, SubSeq(frame[p].seq, 1, 2), 0)

\* C3: an empty seq is contained in every s, the empty one included.
C3_EmptySeqContained ==
    \A p \in Procs : (Done(p) /\ Len(frame[p].seq) = 0) => frame[p].ret

\* The call with an empty haystack and an empty pattern returned.
C3_Witness ==
    \E p \in Procs : Done(p) /\ frame[p].seq = <<>> /\ frame[p].s = <<>> /\ frame[p].ret

\* C4: when seq is longer than s, the call returns FALSE and enters no
\* matcher: it is on entry or has returned.
C4_LongerSeqRejected ==
    \A p \in Procs :
        (frame[p].pc # "idle" /\ Len(frame[p].seq) > Len(frame[p].s)) =>
            /\ frame[p].pc \in {"entry", "done"}
            /\ frame[p].ran = NoMatcher
            /\ Done(p) => ~frame[p].ret

\* A pattern of two elements or more was rejected against the empty haystack
\* under the Apostolico-Crochemore option.
C4_Witness ==
    \E p \in Procs :
        /\ Done(p) /\ frame[p].s = <<>> /\ Len(frame[p].seq) >= 2 /\ ~frame[p].ret
        /\ frame[p].opts = <<OptApostolicoCrochemore>>

\* C5: for a seq of one element x the call returns whether some s[n] = x,
\* which is Contains(s, x), and neither search is entered.
C5_SingleIsContains ==
    \A p \in Procs :
        (frame[p].pc # "idle" /\ Len(frame[p].seq) = 1) =>
            /\ frame[p].ran \in {NoMatcher, RanContains}
            /\ Done(p) =>
                /\ frame[p].ret <=> \E n \in 0..(Len(frame[p].s) - 1) : At(frame[p].s, n) = At(frame[p].seq, 0)
                /\ frame[p].ret = Contains(frame[p].s, At(frame[p].seq, 0))

\* A one-element pattern was found at the last position only of a longer
\* haystack.
C5_Witness ==
    \E p \in Procs :
        /\ Done(p) /\ Len(frame[p].seq) = 1 /\ frame[p].ret /\ frame[p].ran = RanContains
        /\ Len(frame[p].s) >= 3 /\ frame[p].n = Len(frame[p].s) - 1

\* C6: once a search is chosen for 2 <= len(seq) <= len(s), it is the
\* Apostolico-Crochemore search exactly when the options leave
\* searchAlgorithm at ApostolicoCrochemore; any other value, unset or
\* unlisted, gives the brute-force search, and no value is an error.
C6_SelectorChoosesMatcher ==
    \A p \in Procs :
        (/\ frame[p].pc \notin {"idle", "entry", "opts"}
         /\ 2 <= Len(frame[p].seq) /\ Len(frame[p].seq) <= Len(frame[p].s))
        => /\ frame[p].pc # "panic"
           /\ frame[p].ran \in {RanBruteForce, RanApostolicoCrochemore}
           /\ frame[p].ran = RanApostolicoCrochemore
                <=> ApplyOpts(frame[p].opts, Unset) = containsSequenceApostolicoCrochemore

\* A call whose option stored an unlisted value has run the brute-force
\* search to its end.
C6_Witness ==
    \E p \in Procs :
        /\ Done(p) /\ frame[p].searchAlgorithm = Unlisted
        /\ frame[p].ran = RanBruteForce /\ Len(frame[p].seq) >= 2 /\ frame[p].ret

\* C7: no call panics on an index out of range, and a call that has not
\* returned always has a next statement.
C7_NoIndexOutOfRange ==
    \A p \in Procs :
        /\ frame[p].pc # "panic"
        /\ frame[p].pc \notin {"idle", "done"} => ENABLED Step(p)

\* The scan is about to read kmpNext at its last index, len(seq), at the
\* last alignment of the haystack.
C7_Witness ==
    \E p \in Procs :
        /\ frame[p].pc = "ac_shift" /\ frame[p].i = Len(frame[p].seq)
        /\ frame[p].j = Len(frame[p].s) - Len(frame[p].seq)

\* C8: during and after a call the haystack and the pattern are what the
\* caller passed: same length, same elements.
C8_InputsUnchanged ==
    \A p \in Procs :
        frame[p].pc # "idle" => (frame[p].s = caller[p].s /\ frame[p].seq = caller[p].seq)

\* The Apostolico-Crochemore search has built its table and returned.
C8_Witness ==
    \E p \in Procs :
        /\ Done(p) /\ frame[p].ran = RanApostolicoCrochemore
        /\ Len(frame[p].kmpNext) = Len(frame[p].seq) + 1 /\ frame[p].j > 0

\* C9: a call returns what an earlier call with the same haystack, pattern
\* and options returned.
C9_Deterministic ==
    \A p \in Procs : Done(p) =>
        \A r \in returned[p] :
            (r.s = frame[p].s /\ r.seq = frame[p].seq /\ r.opts = frame[p].opts)
            => r.ret = frame[p].ret

\* The second of two Apostolico-Crochemore calls on the same inputs has
\* returned FALSE, as the first did, on a frame the first had left with
\* k = ell > 0.
C9_Witness ==
    \E p \in Procs :
        /\ Done(p) /\ frame[p].calls = 2 /\ frame[p].ran = RanApostolicoCrochemore
        /\ ~frame[p].ret /\ frame[p].k = frame[p].ell /\ frame[p].ell > 0
        /\ \E r \in returned[p] : r.opts = frame[p].opts /\ ~r.ret

\* A statement of one call leaves every other call's frame as it was.
NoInterference ==
    \A p, q \in Procs : (p # q /\ frame'[p] # frame[p]) => frame'[q] = frame[q]

\* C10: calls running at once, their statements interleaved in any order,
\* each return what the call returns on its own, and no statement of one
\* call changes the table, ell or cursors of another.
C10_ConcurrentCallsIndependent ==
    /\ [](\A p \in Procs : Done(p) =>
            frame[p].ret = ContainsSequence(frame[p].s, frame[p].seq, frame[p].opts))
    /\ [][NoInterference]_vars

\* Two Apostolico-Crochemore calls with different patterns on one haystack
\* have both returned, with different results.
C10_Witness ==
    /\ \A p \in Procs : Done(p) /\ frame[p].ran = RanApostolicoCrochemore
    /\ \E p, q \in Procs :
        /\ frame[p].seq # frame[q].seq /\ frame[p].s = frame[q].s
        /\ frame[p].ret /\ ~frame[q].ret

\* The Apostolico-Crochemore search is what call p runs or ran.
RunsAC(p) == frame[p].ran = RanApostolicoCrochemore

\* Every element of seq is the same value.
AllEqual(seq) == \A t \in 1..Len(seq) : seq[t] = seq[1]

\* s holds m consecutive elements equal to v, starting at some offset.
HasRun(s, v, m) == \E o \in 0..(Len(s) - m) : \A t \in 0..(m - 1) : At(s, o + t) = v

\* C11: for a pattern of m >= 2 copies of one value v (ell is reset to 0),
\* the Apostolico-Crochemore search returns TRUE exactly when the haystack
\* holds m consecutive v somewhere; a shorter run never gives TRUE.
C11_RepeatedValuePattern ==
    \A p \in Procs :
        (RunsAC(p) /\ Done(p) /\ AllEqual(frame[p].seq)) =>
            /\ frame[p].ell = 0
            /\ frame[p].ret <=> HasRun(frame[p].s, frame[p].seq[1], Len(frame[p].seq))

\* A pattern of three equal values was rejected against a haystack that
\* holds a run of two of them and, further on, one more.
C11_Witness ==
    \E p \in Procs :
        /\ RunsAC(p) /\ Done(p) /\ AllEqual(frame[p].seq) /\ Len(frame[p].seq) = 3
        /\ ~frame[p].ret /\ HasRun(frame[p].s, frame[p].seq[1], 2)
        /\ At(frame[p].s, Len(frame[p].s) - 1) = frame[p].seq[1]
        /\ Len(frame[p].s) >= 4

\* C12: the Apostolico-Crochemore search returns TRUE only at an alignment
\* j where every element of seq equals the element of s under it.
C12_NoFalsePositive ==
    \A p \in Procs :
        (RunsAC(p) /\ Done(p) /\ frame[p].ret) =>
            /\ InRange(frame[p].j, Len(frame[p].s) - Len(frame[p].seq) + 1)
            /\ OccursAt(frame[p].s, frame[p].seq, frame[p].j)

\* TRUE was returned at an alignment reached with matched-length credit:
\* j > 0 and the prefix phase started from k > 0.
C12_Witness ==
    \E p \in Procs :
        /\ RunsAC(p) /\ Done(p) /\ frame[p].ret /\ frame[p].j > 0
        /\ frame[p].ell >= 2 /\ frame[p].k = frame[p].ell
        /\ ~OccursAt(frame[p].s, SubSeq(frame[p].seq, 1, 1), frame[p].j - 1) 

\* C13: whenever the outer loop condition of the scan is evaluated, seq
\* occurs at no alignment before j, and FALSE is returned only when seq
\* occurs nowhere in s.
C13_NoOccurrenceSkipped ==
    \A p \in Procs :
        /\ (RunsAC(p) /\ frame[p].pc = "ac_outer") =>
               \A o \in 0..(Len(frame[p].s) - Len(frame[p].seq)) :
                   o < frame[p].j => ~OccursAt(frame[p].s, frame[p].seq, o)
        /\ (RunsAC(p) /\ Done(p) /\ ~frame[p].ret) => ~Occurs(frame[p].s, frame[p].seq)

\* The loop condition is evaluated after a shift of more than one position
\* with an alignment still left to try.
C13_Witness ==
    \E p \in Procs :
        /\ RunsAC(p) /\ frame[p].pc = "ac_outer" /\ frame[p].j >= 2
        /\ frame[p].j <= Len(frame[p].s) - Len(frame[p].seq)
        /\ frame[p].i > frame[p].ell

\* The table of call p is complete: the builder's loop has ended.
TableBuilt(p) ==
    /\ RunsAC(p)
    /\ frame[p].pc \in {"ac_ell", "ac_ellreset", "ac_init", "ac_outer", "ac_suffix",
                        "ac_prefix", "ac_shift", "done"}

\* The builder of call p is at work on the table.
TableBuilding(p) == RunsAC(p) /\ frame[p].pc \in {"ac_build", "ac_fallback", "ac_store"}

\* Entry n of a table is at least -1 and below its own index.
EntryBelowIndex(kmpNext, n) == -1 <= At(kmpNext, n) /\ At(kmpNext, n) < n

\* Following y := kmpNext[y] from y gives strictly smaller values down to -1.
RECURSIVE ChainReachesMinusOne(_, _, _)
ChainReachesMinusOne(kmpNext, y, fuel) ==
    IF y = -1 THEN TRUE
    ELSE IF fuel = 0 \/ ~InRange(y, Len(kmpNext)) THEN FALSE
    ELSE At(kmpNext, y) < y /\ ChainReachesMinusOne(kmpNext, At(kmpNext, y), fuel - 1)

\* While the table is built and once it is: its length, its head and the
\* range of the entries written so far (0..x, all of them in the end).
TableShape ==
    \A p \in Procs :
        (TableBuilding(p) \/ TableBuilt(p)) =>
            /\ Len(frame[p].kmpNext) = Len(frame[p].seq) + 1
            /\ At(frame[p].kmpNext, 0) = -1
            /\ frame[p].x <= Len(frame[p].seq)
            /\ TableBuilt(p) => frame[p].x = Len(frame[p].seq)
            /\ \A n \in 0..frame[p].x :
                /\ EntryBelowIndex(frame[p].kmpNext, n)
                /\ ChainReachesMinusOne(frame[p].kmpNext, n, Len(frame[p].kmpNext))

\* A turn of the fallback loop that stays in the loop lowers y.
FallbackLowersY ==
    \A p \in Procs :
        (frame[p].pc = "ac_fallback" /\ frame'[p].pc = "ac_fallback" /\ frame'[p] # frame[p])
            => (frame'[p].y < frame[p].y /\ frame'[p].y >= -1)

\* C14: for a pattern of two elements or more the table has len(seq)+1
\* entries, kmpNext[0] = -1 and -1 <= kmpNext[i] < i for every i; following
\* kmpNext from any position gives strictly decreasing values that reach -1,
\* so every turn of the builder's fallback loop lowers y and the loop ends.
C14_TableBounded == []TableShape /\ [][FallbackLowersY]_vars

\* The complete table of a pattern of MaxP elements holding both an entry of
\* 2 or more and, past index 1, an entry collapsed to -1.
C14_Witness ==
    \E p \in Procs :
        /\ TableBuilt(p) /\ Len(frame[p].seq) = MaxP
        /\ \E n \in 2..Len(frame[p].seq) : At(frame[p].kmpNext, n) >= 2
        /\ \E n \in 2..Len(frame[p].seq) : At(frame[p].kmpNext, n) = -1

\* C15: the table is the strong failure function: for every i with
\* 0 < i < len(seq), kmpNext[i] is -1 or seq[kmpNext[i]] differs from seq[i],
\* so a fallback never lands on an element equal to the one that mismatched.
C15_StrongFailureFunction ==
    \A p \in Procs :
        TableBuilt(p) =>
            \A n \in 1..(Len(frame[p].seq) - 1) :
                \/ At(frame[p].kmpNext, n) = -1
                \/ /\ InRange(At(frame[p].kmpNext, n), Len(frame[p].seq))
                   /\ At(frame[p].seq, At(frame[p].kmpNext, n)) # At(frame[p].seq, n)

\* A complete table where the plain entry was replaced: seq[n] equals the
\* element at the border length y the builder held, so kmpNext[n] is below y.
C15_Witness ==
    \E p \in Procs :
        /\ TableBuilt(p)
        /\ \E n \in 2..(Len(frame[p].seq) - 1) :
            /\ At(frame[p].kmpNext, n) = 0
            /\ At(frame[p].seq, n - 1) = At(frame[p].seq, 0)
            /\ At(frame[p].seq, n) = At(frame[p].seq, 1)
            /\ At(frame[p].seq, 1) # At(frame[p].seq, 0)

\* The first b elements of seq equal the b elements that end at index n-1.
IsBorderOf(seq, n, b) ==
    /\ 0 <= b /\ b <= n
    /\ \A t \in 0..(b - 1) : At(seq, t) = At(seq, n - b + t)

\* The length of the longest proper suffix of seq that is also a prefix.
LongestBorder(seq) ==
    CHOOSE b \in 0..(Len(seq) - 1) :
        /\ IsBorderOf(seq, Len(seq), b)
        /\ \A c \in (b + 1)..(Len(seq) - 1) : ~IsBorderOf(seq, Len(seq), c)

\* C16: every non-negative entry b = kmpNext[i], i in 1..len(seq), is a
\* border length, seq[0..b-1] = seq[i-b..i-1], and kmpNext[len(seq)] is the
\* length of the longest proper suffix of seq that is also a prefix of seq.
C16_EntriesAreBorders ==
    \A p \in Procs :
        TableBuilt(p) =>
            /\ \A n \in 1..Len(frame[p].seq) :
                   At(frame[p].kmpNext, n) >= 0 =>
                       IsBorderOf(frame[p].seq, n, At(frame[p].kmpNext, n))
            /\ At(frame[p].kmpNext, Len(frame[p].seq)) = LongestBorder(frame[p].seq)

\* A complete table whose last entry is a border of one element or more that
\* is not the whole pattern less one: the builder fell back and matched again.
C16_Witness ==
    \E p \in Procs :
        /\ TableBuilt(p) /\ Len(frame[p].seq) >= 3
        /\ At(frame[p].kmpNext, Len(frame[p].seq)) >= 1
        /\ At(frame[p].kmpNext, Len(frame[p].seq)) < Len(frame[p].seq) - 1
        /\ \E n \in 1..(Len(frame[p].seq) - 1) : At(frame[p].seq, n) # At(frame[p].seq, 0)

\* ell of call p has its final value: the reset has been passed.
EllComputed(p) ==
    /\ RunsAC(p)
    /\ frame[p].pc \in {"ac_init", "ac_outer", "ac_suffix", "ac_prefix", "ac_shift", "done"}

\* The least index e >= 1 with seq[e-1] # seq[e]: the length of the initial
\* run of elements equal to seq[0], for a pattern that is not one run.
InitialRun(seq) ==
    CHOOSE e \in 1..(Len(seq) - 1) :
        /\ At(seq, e - 1) # At(seq, e)
        /\ \A d \in 1..(e - 1) : At(seq, d - 1) = At(seq, d)

\* C17: for a pattern of two elements or more ell is 0 when all elements are
\* equal and otherwise the length of the maximal initial run of elements equal
\* to seq[0]; 0 <= ell <= len(seq) while it is computed and ell < len(seq)
\* once it is.
C17_EllIsInitialRun ==
    \A p \in Procs :
        /\ (RunsAC(p) /\ frame[p].pc \in {"ac_ell", "ac_ellreset"}) =>
               (0 <= frame[p].ell /\ frame[p].ell <= Len(frame[p].seq))
        /\ EllComputed(p) =>
               /\ 0 <= frame[p].ell /\ frame[p].ell < Len(frame[p].seq)
               /\ frame[p].ell = IF AllEqual(frame[p].seq) THEN 0
                                 ELSE InitialRun(frame[p].seq)

\* ell was reset to 0 for a pattern of one repeated element, the scan begun.
C17_Witness ==
    \E p \in Procs :
        /\ EllComputed(p) /\ frame[p].pc = "ac_outer"
        /\ AllEqual(frame[p].seq) /\ Len(frame[p].seq) >= 3 /\ frame[p].ell = 0

\* q is a period of seq: elements q apart are equal.
IsPeriod(seq, q) ==
    /\ 1 <= q /\ q <= Len(seq)
    /\ \A t \in 0..(Len(seq) - q - 1) : At(seq, t) = At(seq, t + q)

\* The smallest period of seq (len(seq) itself when no shorter one exists).
SmallestPeriod(seq) ==
    CHOOSE q \in 1..Len(seq) :
        IsPeriod(seq, q) /\ \A r \in 1..(q - 1) : ~IsPeriod(seq, r)

\* C18 as stated: ell is the smallest period of the pattern when that is
\* shorter than the pattern, and 0 when the smallest period is the pattern's
\* length.
C18_EllIsSmallestPeriod ==
    \A p \in Procs :
        EllComputed(p) =>
            /\ SmallestPeriod(frame[p].seq) < Len(frame[p].seq) =>
                   frame[p].ell = SmallestPeriod(frame[p].seq)
            /\ SmallestPeriod(frame[p].seq) = Len(frame[p].seq) => frame[p].ell = 0

\* C18: ell is 0 exactly when the smallest period of the pattern is 1 (all
\* elements equal); otherwise ell is the length of the initial run of equal
\* elements, at least 1 and strictly below the smallest period.
C18_EllBelowSmallestPeriod ==
    \A p \in Procs :
        EllComputed(p) =>
            /\ (frame[p].ell = 0) <=> (SmallestPeriod(frame[p].seq) = 1)
            /\ SmallestPeriod(frame[p].seq) > 1 =>
                   /\ 1 <= frame[p].ell
                   /\ frame[p].ell < SmallestPeriod(frame[p].seq)
                   /\ \A t \in 0..(frame[p].ell - 1) : At(frame[p].seq, t) = At(frame[p].seq, 0)
                   /\ At(frame[p].seq, frame[p].ell) # At(frame[p].seq, 0)

\* ell is computed for a pattern with a period shorter than its length and
\* longer than 1, and ell is not that period.
C18_Witness ==
    \E p \in Procs :
        /\ EllComputed(p)
        /\ SmallestPeriod(frame[p].seq) > 1
        /\ SmallestPeriod(frame[p].seq) < Len(frame[p].seq)
        /\ frame[p].ell # SmallestPeriod(frame[p].seq)

\* Call p is in the scan of apostolicoCrochemoreSearch or has returned from it.
Scanning(p) ==
    /\ RunsAC(p)
    /\ frame[p].pc \in {"ac_outer", "ac_suffix", "ac_prefix", "ac_shift", "done"}

\* The cursors of call p record real matches at alignment j: the first k
\* elements and the elements ell..i-1 of seq equal those of s from j.
CursorsRecordMatches(p) ==
    /\ \A t \in 0..(frame[p].k - 1) :
           /\ InRange(frame[p].j + t, Len(frame[p].s)) /\ InRange(t, Len(frame[p].seq))
           /\ At(frame[p].s, frame[p].j + t) = At(frame[p].seq, t)
    /\ \A t \in frame[p].ell..(frame[p].i - 1) :
           /\ InRange(frame[p].j + t, Len(frame[p].s)) /\ InRange(t, Len(frame[p].seq))
           /\ At(frame[p].s, frame[p].j + t) = At(frame[p].seq, t)

\* C19: at every head of the scan's outer loop with j <= len(s)-len(seq),
\* s[j+t] = seq[t] for every t in 0..k-1 and for every t in ell..i-1; each
\* of the three resynchronisation branches re-establishes this for the new
\* alignment.
C19_CursorsRecordMatches ==
    \A p \in Procs :
        (RunsAC(p) /\ frame[p].pc = "ac_outer"
            /\ frame[p].j <= Len(frame[p].s) - Len(frame[p].seq))
            => CursorsRecordMatches(p)

\* A loop head after the third branch: the whole prefix and a part of the
\* suffix are credited at an alignment past the first.
C19_Witness ==
    \E p \in Procs :
        /\ RunsAC(p) /\ frame[p].pc = "ac_outer" /\ frame[p].j > 0
        /\ frame[p].j <= Len(frame[p].s) - Len(frame[p].seq)
        /\ frame[p].k = frame[p].ell /\ frame[p].ell > 0 /\ frame[p].i > frame[p].ell

\* The cursors of call p are in range.
CursorsInRange ==
    \A p \in Procs :
        Scanning(p) =>
            /\ frame[p].ell <= frame[p].i /\ frame[p].i <= Len(frame[p].seq)
            /\ 0 <= frame[p].k /\ frame[p].k <= frame[p].ell
            /\ frame[p].j >= 0

\* The scan is entered with (i, j, k) = (ell, 0, 0).
ScanStartsAtEll ==
    \A p \in Procs :
        (frame[p].pc = "ac_init" /\ frame'[p].pc = "ac_outer") =>
            /\ frame'[p].i = frame'[p].ell /\ frame'[p].ell = frame[p].ell
            /\ frame'[p].j = 0 /\ frame'[p].k = 0

\* C20: throughout the scan ell <= i <= len(seq), 0 <= k <= ell and j >= 0,
\* and the scan starts from (i, j, k) = (ell, 0, 0).
C20_CursorsInRange == []CursorsInRange /\ [][ScanStartsAtEll]_vars

\* The first branch has clamped k at 0: a mismatch at i = ell with k = 0, then
\* the next loop head, for a pattern whose ell is above 0.
C20_Witness ==
    \E p \in Procs :
        /\ Scanning(p) /\ frame[p].pc = "ac_outer" /\ frame[p].j > 0
        /\ frame[p].ell > 0 /\ frame[p].i = frame[p].ell /\ frame[p].k = 0
        /\ At(frame[p].s, frame[p].j - 1 + frame[p].ell) # At(frame[p].seq, frame[p].ell)

\* One call under weak fairness of its steps: a call that can take a step
\* takes it (the Go scheduler runs a runnable goroutine).
SpecLive == Init /\ [][Next]_vars /\ WF_vars(Next)

\* The step that ends an outer iteration moves the alignment by
\* i - kmpNext[i], which is 1 or more.
ShiftAdvances ==
    \A p \in Procs :
        (RunsAC(p) /\ frame[p].pc = "ac_shift" /\ frame'[p].pc = "ac_outer") =>
            /\ frame'[p].j = frame[p].j + (frame[p].i - At(frame[p].kmpNext, frame[p].i))
            /\ frame[p].i - At(frame[p].kmpNext, frame[p].i) >= 1
            /\ frame'[p].j > frame[p].j

\* The outer loop's body was entered at most len(s)-len(seq)+1 times, and
\* never more often than the alignments 0..j passed so far.
AlignmentsBounded ==
    \A p \in Procs :
        Scanning(p) =>
            /\ frame[p].alignments <= Len(frame[p].s) - Len(frame[p].seq) + 1
            /\ frame[p].alignments <= frame[p].j + 1

\* A call that entered apostolicoCrochemoreSearch returns from it.
ScanReturns == \A p \in Procs : RunsAC(p) ~> (RunsAC(p) /\ Done(p))

\* C21: the AC scan terminates on every input: each outer iteration that
\* does not return raises j by i - kmpNext[i] >= 1, so the outer loop runs at
\* most len(s)-len(seq)+1 times before it returns true or exits with
\* j > len(s)-len(seq).
C21_ScanTerminates == []AlignmentsBounded /\ [][ShiftAdvances]_vars /\ ScanReturns

\* A scan that used every alignment and returned false.
C21_Witness ==
    \E p \in Procs :
        /\ RunsAC(p) /\ Done(p) /\ ~frame[p].ret
        /\ Len(frame[p].s) = MaxH /\ Len(frame[p].seq) = 2
        /\ frame[p].alignments = Len(frame[p].s) - Len(frame[p].seq) + 1
        /\ frame[p].j > Len(frame[p].s) - Len(frame[p].seq)

\* The prefix phase of call p is entered by this step.
EntersPrefix(p) == frame[p].pc # "ac_prefix" /\ frame'[p].pc = "ac_prefix"

\* Call p returns from apostolicoCrochemoreSearch by this step.
ReturnsFromScan(p) == RunsAC(p) /\ frame[p].pc # "done" /\ frame'[p].pc = "done"

\* The order of the phases at one alignment and the two places of return.
PhaseOrder ==
    \A p \in Procs :
        /\ EntersPrefix(p) =>
               /\ frame[p].pc = "ac_suffix"
               /\ frame[p].i >= Len(frame[p].seq)
               /\ frame'[p].j = frame[p].j /\ frame'[p].i = frame[p].i
        /\ (ReturnsFromScan(p) /\ frame'[p].ret) =>
               /\ frame[p].pc = "ac_prefix"
               /\ frame[p].k >= frame[p].ell
               /\ frame[p].i >= Len(frame[p].seq)
        /\ (ReturnsFromScan(p) /\ ~frame'[p].ret) =>
               /\ frame[p].pc = "ac_outer"
               /\ ~(frame[p].j <= Len(frame[p].s) - Len(frame[p].seq))

\* C22: the prefix phase is entered at an alignment only after the suffix
\* phase has reached i >= len(seq) at that alignment; true is returned only
\* from the prefix phase with k >= ell, and false only after the loop
\* condition j <= len(s)-len(seq) has failed.
C22_SuffixBeforePrefix ==
    /\ [][PhaseOrder]_vars
    /\ [](\A p \in Procs : (RunsAC(p) /\ frame[p].pc = "ac_prefix") =>
                               frame[p].i >= Len(frame[p].seq))

\* The prefix phase is at work at an alignment past the first, the suffix
\* matched and a part of the prefix compared.
C22_Witness ==
    \E p \in Procs :
        /\ RunsAC(p) /\ frame[p].pc = "ac_prefix" /\ frame[p].j > 0
        /\ frame[p].i = Len(frame[p].seq) /\ frame[p].ell >= 2 /\ frame[p].k = 1

\* The step taken after the suffix phase failed at its first comparison.
FirstBranch ==
    \A p \in Procs :
        (RunsAC(p) /\ frame[p].pc = "ac_shift" /\ frame[p].i = frame[p].ell
            /\ frame'[p].pc = "ac_outer") =>
            /\ frame'[p].j = frame[p].j + 1
            /\ frame'[p].k = (IF frame[p].k - 1 > 0 THEN frame[p].k - 1 ELSE 0)
            /\ frame'[p].i = frame[p].ell

\* C23: when the suffix phase fails at its first comparison (i = ell), the
\* alignment advances by exactly one position, kmpNext[ell] = ell - 1 for
\* every pattern, and k becomes max(k-1, 0) while i stays ell.
C23_FirstMismatchShiftsOne ==
    /\ [](\A p \in Procs : EllComputed(p) =>
              At(frame[p].kmpNext, frame[p].ell) = frame[p].ell - 1)
    /\ [][FirstBranch]_vars

\* The suffix phase has failed at its first comparison at an alignment past
\* the first with a part of the prefix credited.
C23_Witness ==
    \E p \in Procs :
        /\ RunsAC(p) /\ frame[p].pc = "ac_shift" /\ frame[p].j > 0
        /\ frame[p].i = frame[p].ell /\ frame[p].k >= 1

\* Some start offset idx >= 0 with len(s) - idx >= len(seq) has
\* s[idx+t] = seq[t] for all t < len(seq).
MatchesAtSomeOffset(s, seq) ==
    \E idx \in 0..Len(s) : Len(s) - idx >= Len(seq) /\ OccursAt(s, seq, idx)

InMatcher(p) == frame[p].ran \in {RanBruteForce, RanApostolicoCrochemore}

\* C25: bruteForceSearch and apostolicoCrochemoreSearch are only entered with
\* 2 <= len(seq) <= len(s), so the table builder and the scan never run on an
\* empty or one-element pattern (for which ell, before the reset, would be
\* len(seq) or more).
C25_MatchersGuarded ==
    /\ \A p \in Procs :
           (InMatcher(p) \/ frame[p].pc \in {"opts", "bf_outer", "bf_inner", "ac_alloc",
                                             "ac_build", "ac_fallback", "ac_store", "ac_ell",
                                             "ac_ellreset", "ac_init", "ac_outer", "ac_suffix",
                                             "ac_prefix", "ac_shift"}) =>
               (2 <= Len(frame[p].seq) /\ Len(frame[p].seq) <= Len(frame[p].s))
    /\ \A seq \in SeqsUpTo(Elems, 1) : ellLoop(seq, 1) >= Len(seq)

\* A matcher is entered at the edge of the guard: a pattern of two elements
\* in a haystack of two.
C25_Witness ==
    \E p \in Procs :
        /\ InMatcher(p) /\ frame[p].pc \in {"ac_alloc", "bf_outer"}
        /\ Len(frame[p].seq) = 2 /\ Len(frame[p].s) = 2

\* This step of frame p stays within one call.
SameCall(p) == frame'[p].calls = frame[p].calls

\* Once built, kmpNext and ell keep their values for the rest of the call,
\* and the call never goes back to building them.
PreprocessingFrozen ==
    \A p \in Procs :
        /\ (TableBuilt(p) /\ SameCall(p)) =>
               /\ frame'[p].kmpNext = frame[p].kmpNext
               /\ frame'[p].pc \notin {"ac_alloc", "ac_build", "ac_fallback", "ac_store"}
        /\ (EllComputed(p) /\ SameCall(p)) =>
               /\ frame'[p].ell = frame[p].ell
               /\ frame'[p].pc \notin {"ac_ell", "ac_ellreset", "ac_init"} \/ frame[p].pc = "ac_init"
        /\ (RunsAC(p) /\ frame[p].pc # "ac_alloc" /\ SameCall(p)) => frame'[p].pc # "ac_alloc"

\* C26: once the preprocessing of a search has finished the scan never
\* writes kmpNext or ell: both keep the values the builder gave them until
\* the call returns, and they are built exactly once per call.
C26_PreprocessingImmutable ==
    /\ [][PreprocessingFrozen]_vars
    /\ [](\A p \in Procs : EllComputed(p) =>
              /\ frame[p].kmpNext = kmpNextOf(frame[p].seq)
              /\ frame[p].ell = ellOf(frame[p].seq))

\* A second call has come back from a scan of three alignments or more whose
\* table holds an entry above 0 and whose ell is above 0.
C26_Witness ==
    \E p \in Procs :
        /\ RunsAC(p) /\ Done(p) /\ frame[p].calls = 2
        /\ frame[p].alignments >= 3 /\ frame[p].ell > 0 /\ ~frame[p].ret
        /\ \E n \in 1..Len(frame[p].seq) : At(frame[p].kmpNext, n) >= 1

\* C27: the work of the AC path is linear: the element comparisons of the
\* preprocessing number at most 4*len(seq) and those of the scan at most
\* 3*len(s)/2, whatever s and seq hold, so their total is at most
\* 4*(len(s)+len(seq)).
C27_LinearComparisons ==
    \A p \in Procs :
        RunsAC(p) =>
            /\ frame[p].compares <= 4 * Len(frame[p].seq)
            /\ 2 * frame[p].scanCompares <= 3 * Len(frame[p].s)
            /\ frame[p].compares + frame[p].scanCompares
                   <= 4 * (Len(frame[p].s) + Len(frame[p].seq))

\* A scan has made more comparisons than the haystack has elements (some
\* element was compared twice) after a preprocessing that made more
\* comparisons than the pattern has elements.
C27_Witness ==
    \E p \in Procs :
        /\ RunsAC(p)
        /\ frame[p].scanCompares > Len(frame[p].s)
        /\ frame[p].compares > Len(frame[p].seq)

\* The searchAlgorithm that the options opts[0..n-1], applied in argument
\* order to a fresh args value, leave behind: that of the last of them.
AfterOptions(opts, n) ==
    IF n = 0 THEN Unset
    ELSE IF At(opts, n - 1) = OptApostolicoCrochemore THEN containsSequenceApostolicoCrochemore
    ELSE IF At(opts, n - 1) = OptBruteForce THEN containsSequenceBruteForce
    ELSE Unlisted

\* C28: several options are applied in argument order to one fresh args
\* value and the last one decides the matcher: (ApostolicoCrochemore,
\* BruteForce) runs brute force and (BruteForce, ApostolicoCrochemore) runs
\* AC; the result is the same boolean in either order.
C28_LastOptionDecides ==
    \A p \in Procs :
        /\ frame[p].pc = "opts" =>
               frame[p].searchAlgorithm = AfterOptions(frame[p].opts, frame[p].optIdx)
        /\ (InMatcher(p) /\ frame[p].opts = <<OptApostolicoCrochemore, OptBruteForce>>) =>
               frame[p].ran = RanBruteForce
        /\ (InMatcher(p) /\ frame[p].opts = <<OptBruteForce, OptApostolicoCrochemore>>) =>
               frame[p].ran = RanApostolicoCrochemore
        /\ Done(p) =>
               \A r \in returned[p] :
                   (r.s = frame[p].s /\ r.seq = frame[p].seq /\ r.opts = Reversed(frame[p].opts))
                       => r.ret = frame[p].ret

\* The second call, with (BruteForce, ApostolicoCrochemore), has returned
\* true from the AC matcher after the first, with (ApostolicoCrochemore,
\* BruteForce), returned from brute force.
C28_Witness ==
    \E p \in Procs :
        /\ Done(p) /\ frame[p].ret /\ RunsAC(p)
        /\ frame[p].opts = <<OptBruteForce, OptApostolicoCrochemore>>
        /\ \E r \in returned[p] : r.opts = <<OptApostolicoCrochemore, OptBruteForce>> /\ r.ret

C30_ResultEventuallyClosed ==
    /\ chans.inClosed ~> chans.resultClosed
    /\ <>(chans.consPc = "done")

====
